---- MODULE Spec2Model ----
(***************************************************************************)
(* A model of condense.py: the SRT timestamp codec, the contiguity check   *)
(* of SRT.parse, SRT.sort_and_reindex with the content filter of           *)
(* parse_srt, and the condense pipeline (audio extraction, parallel cuts,  *)
(* concatenation, removal of the working directory).                       *)
(*                                                                         *)
(* Text is a sequence of one-character strings.  Durations (timedelta) are *)
(* integers counting milliseconds.                                         *)
(***************************************************************************)
EXTENDS Integers, Sequences, FiniteSets, TLC

VARIABLES
    \* ---- parse_srt: SRT.sort_and_reindex and the content filter
    subtitles,      \* the entries SRT.parse yielded, in parse order
    start_index,    \* sort_and_reindex's start_index
    skip,           \* sort_and_reindex's skip
    filters,        \* parse_srt's filters: a set of tokens
    yielded,        \* what sort_and_reindex yielded, in order
    segments,       \* what parse_srt yielded, in order
    srt_pc,
    \* ---- SRT.srt_timestamp_to_timedelta
    timestamp,      \* the text handed to the function
    ts_fields,      \* the fields the text was written from (not in the source)
    ts_result,      \* its result: [ok |-> TRUE, ms |-> n] or [ok |-> FALSE]
    ts_pc,
    \* ---- SRT.parse
    srt,            \* the buffer
    matches,        \* SRT_REGEX.finditer(srt): <<start, end>> offsets, in order
    expected_start,
    next_match,     \* position of the for loop in matches
    parsed,         \* number of entries yielded so far
    unmatched_content,
    parse_pc,
    \* ---- condense
    video_stem,     \* video_path.stem
    out_suffix,     \* output_path.suffix
    pool_size,      \* number of worker processes of Pool()
    seg_count,      \* number of Segments the iterable holds
    seg_raises,     \* whether iterating the Segments raises
    pc,
    tmpdir,         \* whether the working directory exists
    files,          \* names of the files in the working directory
    invoked,        \* the call_ffmpeg invocations started so far
    exited,         \* <<invocation, exit status>> of those that have exited
    task,           \* task[i]: state of extract_segment for Segment i
    finished,       \* the Segment numbers in the order their tasks ended
    segment_paths,  \* what pool.starmap returned
    filelist,       \* the lines of filelist.txt handed to the concat
    artifact        \* whether the final artifact was produced

srtVars == <<subtitles, start_index, skip, filters, yielded, segments, srt_pc>>
tsVars == <<timestamp, ts_fields, ts_result, ts_pc>>
parseVars == <<srt, matches, expected_start, next_match, parsed,
               unmatched_content, parse_pc>>
pipeVars == <<video_stem, out_suffix, pool_size, seg_count, seg_raises, pc,
              tmpdir, files, invoked, exited, task, finished, segment_paths,
              filelist, artifact>>
vars == <<srtVars, tsVars, parseVars, pipeVars>>

(***************************************************************************)
(* Bounds of the model.                                                    *)
(***************************************************************************)
MaxSubs == 3
MaxFieldLen == 1
MaxFracLen == 3
MaxBuf == 4
MaxMatches == 2
MaxSegments == 5

(***************************************************************************)
(* Helpers on sequences.                                                   *)
(***************************************************************************)
SeqsUpTo(S, n) == UNION {[1..k -> S] : k \in 0..n}

\* word in text: the literal substring test of Python's `in` on str
IsSubstring(word, text) ==
    \E i \in 0..(Len(text) - Len(word)) :
        SubSeq(text, i + 1, i + Len(word)) = word

(***************************************************************************)
(* Subtitle (dataclass, order=True): the generated __lt__ compares the     *)
(* tuple of the fields declared with compare=True, in declaration order:   *)
(* (index, start, end).  The field pos is not in the source: it records    *)
(* the position at which SRT.parse yielded the entry.                      *)
(***************************************************************************)
Subtitle(index, start, end, content, pos) ==
    [index |-> index, start |-> start, end |-> end, content |-> content,
     pos |-> pos]

Subtitle_lt(a, b) ==
    \/ a.index < b.index
    \/ a.index = b.index /\ a.start < b.start
    \/ a.index = b.index /\ a.start = b.start /\ a.end < b.end

(***************************************************************************)
(* sorted(subtitles): a stable sort by __lt__.  Each element is inserted   *)
(* in front of the first element it is less than.                          *)
(***************************************************************************)
RECURSIVE InsertSorted(_, _)
InsertSorted(s, x) ==
    IF s = <<>> THEN <<x>>
    ELSE IF Subtitle_lt(x, Head(s)) THEN <<x>> \o s
    ELSE <<Head(s)>> \o InsertSorted(Tail(s), x)

RECURSIVE sorted(_)
sorted(s) ==
    IF s = <<>> THEN <<>>
    ELSE InsertSorted(sorted(SubSeq(s, 1, Len(s) - 1)), s[Len(s)])

(***************************************************************************)
(* str.strip() and str.isspace()                                           *)
(***************************************************************************)
Whitespace == {" ", "\n", "\r", "\t"}

RECURSIVE lstrip(_)
lstrip(s) ==
    IF s # <<>> /\ Head(s) \in Whitespace THEN lstrip(Tail(s)) ELSE s

RECURSIVE rstrip(_)
rstrip(s) ==
    IF s # <<>> /\ s[Len(s)] \in Whitespace
    THEN rstrip(SubSeq(s, 1, Len(s) - 1)) ELSE s

strip(s) == rstrip(lstrip(s))

isspace(s) == s # <<>> /\ \A i \in 1..Len(s) : s[i] \in Whitespace

(***************************************************************************)
(* SRT.sort_and_reindex                                                    *)
(***************************************************************************)
\* mutant: an entry with start = end is kept
SkipCondition_StrictlyAfter(subtitle) ==
    \/ strip(subtitle.content) = <<>>
    \/ subtitle.start < 0
    \/ subtitle.start > subtitle.end

SkipCondition(subtitle) ==
    \/ strip(subtitle.content) = <<>>
    \/ subtitle.start < 0
    \/ subtitle.start >= subtitle.end

\* mutant: the skipped count is not subtracted
NewIndex_Unadjusted(sub_num, skipped_subs) == sub_num

NewIndex(sub_num, skipped_subs) == sub_num - skipped_subs

\* the for loop over enumerate(sorted(subtitles), start=start_index)
RECURSIVE ReindexLoop(_, _, _, _)
ReindexLoop(rest, sub_num, skipped_subs, do_skip) ==
    IF rest = <<>> THEN <<>>
    ELSE IF do_skip /\ SkipCondition(Head(rest))
    THEN ReindexLoop(Tail(rest), sub_num + 1, skipped_subs + 1, do_skip)
    ELSE <<[Head(rest) EXCEPT !.index = NewIndex(sub_num, skipped_subs)]>>
         \o ReindexLoop(Tail(rest), sub_num + 1, skipped_subs, do_skip)

sort_and_reindex(subs, first_index, do_skip) ==
    ReindexLoop(sorted(subs), first_index, 0, do_skip)

(***************************************************************************)
(* SRT.timedelta_to_srt_timestamp and format_timedelta.  A timedelta of    *)
(* ms milliseconds is normalised by Python to days, seconds (0..86399) and *)
(* microseconds (0..999999), days carrying the sign.                       *)
(***************************************************************************)
SECONDS_IN_HOUR == 3600
SECONDS_IN_MINUTE == 60
HOURS_IN_DAY == 24
MICROSECONDS_IN_MILLISECOND == 1000
MillisecondsInDay == HOURS_IN_DAY * SECONDS_IN_HOUR * 1000

DigitChars == <<"0", "1", "2", "3", "4", "5", "6", "7", "8", "9">>

\* str(n) for n >= 0
RECURSIVE NatToText(_)
NatToText(n) ==
    IF n < 10 THEN <<DigitChars[n + 1]>>
    ELSE NatToText(n \div 10) \o <<DigitChars[(n % 10) + 1]>>

RECURSIVE ZeroPad(_, _)
ZeroPad(text, width) ==
    IF Len(text) >= width THEN text ELSE ZeroPad(<<"0">> \o text, width)

\* "%0<width>d" % n : the sign counts in the width
FormatD(n, width) ==
    IF n >= 0 THEN ZeroPad(NatToText(n), width)
    ELSE <<"-">> \o ZeroPad(NatToText(-n), width - 1)

timedelta_days(ms) == ms \div MillisecondsInDay
timedelta_seconds(ms) == (ms % MillisecondsInDay) \div 1000
timedelta_microseconds(ms) == (ms % 1000) * 1000

timedelta_to_srt_timestamp(ms) ==
    LET hours0 == timedelta_seconds(ms) \div SECONDS_IN_HOUR
        seconds_remainder == timedelta_seconds(ms) % SECONDS_IN_HOUR
        hours == hours0 + timedelta_days(ms) * HOURS_IN_DAY
        minutes == seconds_remainder \div SECONDS_IN_MINUTE
        seconds == seconds_remainder % SECONDS_IN_MINUTE
        milliseconds == timedelta_microseconds(ms)
                            \div MICROSECONDS_IN_MILLISECOND
    IN  FormatD(hours, 2) \o <<":">> \o FormatD(minutes, 2) \o <<":">>
        \o FormatD(seconds, 2) \o <<",">> \o FormatD(milliseconds, 3)

\* str.replace(",", ".")
ReplaceComma(text) ==
    [i \in 1..Len(text) |-> IF text[i] = "," THEN "." ELSE text[i]]

format_timedelta(ms) == ReplaceComma(timedelta_to_srt_timestamp(ms))

(***************************************************************************)
(* parse_srt: the loop over SRT.sort_and_reindex(subs) that drops the      *)
(* entries holding a filter word and yields a Segment for the others.      *)
(* SegmentOf keeps, beside the two formatted timestamps of the Segment,    *)
(* the entry it was made from (src), which the source does not keep.       *)
(***************************************************************************)
\* "#" stands for the one character U+266C of the source
MUSIC_SYMBOLS == {<<"#">>}

\* mutant: a word must equal the whole content
Filtered_WholeContent(fs, sub) ==
    fs # {} /\ \E word \in fs : word = sub.content

Filtered(fs, sub) ==
    fs # {} /\ \E word \in fs : IsSubstring(word, sub.content)

SegmentOf(sub) ==
    [start |-> format_timedelta(sub.start), end |-> format_timedelta(sub.end),
     src |-> sub]

RECURSIVE FilterLoop(_, _)
FilterLoop(fs, subs) ==
    IF subs = <<>> THEN <<>>
    ELSE IF Filtered(fs, Head(subs)) THEN FilterLoop(fs, Tail(subs))
    ELSE <<SegmentOf(Head(subs))>> \o FilterLoop(fs, Tail(subs))

(***************************************************************************)
(* main builds the filters: the words of --filters split on " ", empty     *)
(* words dropped, and MUSIC_SYMBOLS unless --skip-filter-music.            *)
(***************************************************************************)
main_filters(words, skip_filter_music) ==
    {word \in words : word # <<>>}
        \cup (IF skip_filter_music THEN {} ELSE MUSIC_SYMBOLS)

(***************************************************************************)
(* The inputs of the parse_srt model.  Two families of entry lists:        *)
(* SeqEntries varies the declared index and the timing (negative start,    *)
(* start = end, start > end, equal keys) with blank and non-blank content; *)
(* FilterEntries varies the content against the filter words.              *)
(***************************************************************************)
Timings == {<<-1, 1000>>, <<0, 1000>>, <<0, 2000>>, <<1000, 1000>>,
            <<1000, 2000>>, <<2500, 1000>>}
Indexes == {1, 2}
SeqContents == {<<" ">>, <<"a">>}
SeqEntries ==
    {Subtitle(i, t[1], t[2], c, 0) :
        i \in Indexes, t \in Timings, c \in SeqContents}

FilterContents == {<<>>, <<"a">>, <<"A">>, <<"a", "b">>, <<"b", "#">>}
FilterEntries ==
    {Subtitle(i, 0, 1000, c, 0) : i \in Indexes, c \in FilterContents}
FilterWordSets ==
    {main_filters(ws, m) : ws \in SUBSET {<<>>, <<"a">>, <<"a", "b">>},
                           m \in BOOLEAN}
StartIndexes == {1, 7}

\* the list SRT.parse yields: entry k was yielded k-th
Parsed(f) == [k \in DOMAIN f |-> [f[k] EXCEPT !.pos = k]]

SrtIdle ==
    /\ subtitles = <<>> /\ start_index = 1 /\ skip = TRUE /\ filters = {}
    /\ yielded = <<>> /\ segments = <<>> /\ srt_pc = "idle"
TsIdle ==
    /\ timestamp = <<>> /\ ts_fields = <<>> /\ ts_result = [ok |-> FALSE]
    /\ ts_pc = "idle"
ParseIdle ==
    /\ srt = <<>> /\ matches = <<>> /\ expected_start = 0 /\ next_match = 1
    /\ parsed = 0 /\ unmatched_content = <<>> /\ parse_pc = "idle"
PipeIdle ==
    /\ video_stem = <<>> /\ out_suffix = <<>> /\ pool_size = 1
    /\ seg_count = 0 /\ seg_raises = FALSE /\ pc = "idle" /\ tmpdir = FALSE
    /\ files = {} /\ invoked = {} /\ exited = {} /\ task = <<>>
    /\ finished = <<>> /\ segment_paths = <<>> /\ filelist = <<>>
    /\ artifact = FALSE

InitSrt ==
    /\ \/ /\ \E f \in SeqsUpTo(SeqEntries, MaxSubs) : subtitles = Parsed(f)
          /\ start_index \in StartIndexes
          /\ skip = TRUE
          /\ filters = {}
       \/ /\ \E f \in SeqsUpTo(FilterEntries, MaxSubs) : subtitles = Parsed(f)
          /\ start_index = 1
          /\ skip \in BOOLEAN
          /\ filters \in FilterWordSets
    /\ yielded = <<>> /\ segments = <<>> /\ srt_pc = "parsed"
    /\ TsIdle /\ ParseIdle /\ PipeIdle

\* SRT.sort_and_reindex(subs, start_index, skip=skip), run to its end
SortAndReindex ==
    /\ srt_pc = "parsed"
    /\ yielded' = sort_and_reindex(subtitles, start_index, skip)
    /\ srt_pc' = "sequenced"
    /\ UNCHANGED <<subtitles, start_index, skip, filters, segments>>
    /\ UNCHANGED <<tsVars, parseVars, pipeVars>>

\* the body of parse_srt's for loop, over all that sort_and_reindex yields
ContentFilter ==
    /\ srt_pc = "sequenced"
    /\ segments' = FilterLoop(filters, yielded)
    /\ srt_pc' = "done"
    /\ UNCHANGED <<subtitles, start_index, skip, filters, yielded>>
    /\ UNCHANGED <<tsVars, parseVars, pipeVars>>

NextSrt == SortAndReindex \/ ContentFilter

SpecSrt == InitSrt /\ [][NextSrt]_vars

(***************************************************************************)
(* Claims about SRT.sort_and_reindex and parse_srt (SpecSrt).              *)
(***************************************************************************)
Sequenced == srt_pc \in {"sequenced", "done"}

KeyLeq(a, b) ==
    \/ a.start < b.start
    \/ a.start = b.start /\ a.end <= b.end
SameTiming(a, b) == a.start = b.start /\ a.end = b.end

\* C1: sort_and_reindex yields the surviving entries in ascending order of
\* (start, end), entries of identical (start, end) in their parse order, so
\* the Segments of parse_srt are non-decreasing in start.
C1_AscendingStartEnd ==
    /\ Sequenced =>
        \A i, j \in 1..Len(yielded) :
            i < j => /\ KeyLeq(yielded[i], yielded[j])
                     /\ SameTiming(yielded[i], yielded[j])
                            => yielded[i].pos < yielded[j].pos
    /\ srt_pc = "done" =>
        \A i, j \in 1..Len(segments) :
            i < j => segments[i].src.start <= segments[j].src.start

Blank(content) == \A k \in 1..Len(content) : content[k] \in Whitespace
Invalid(e) == Blank(e.content) \/ e.start < 0 \/ e.start >= e.end
PosOf(s) == {s[k].pos : k \in 1..Len(s)}

\* C2: with skip set, sort_and_reindex drops an entry iff its trimmed content
\* is empty, or start < 0, or start >= end; every Segment of parse_srt comes
\* from an entry with 0 <= start < end and non-blank content, and no entry
\* with start >= end has a Segment.
C2_SkipsExactlyInvalid ==
    /\ (Sequenced /\ skip) =>
        /\ PosOf(yielded) =
              {k \in 1..Len(subtitles) : ~Invalid(subtitles[k])}
        /\ Len(yielded) = Cardinality(PosOf(yielded))
    /\ (srt_pc = "done" /\ skip) =>
        \A i \in 1..Len(segments) :
            LET e == subtitles[segments[i].src.pos]
            IN  /\ 0 <= e.start /\ e.start < e.end /\ ~Blank(e.content)
                /\ segments[i].start = format_timedelta(e.start)
                /\ segments[i].end = format_timedelta(e.end)

C2_Witness ==
    /\ srt_pc = "done" /\ skip /\ Len(subtitles) = 3 /\ Len(segments) = 1
    /\ \E k \in 1..3 : subtitles[k].start = subtitles[k].end
                       /\ ~Blank(subtitles[k].content)
    /\ \E k \in 1..3 : Blank(subtitles[k].content)
                       /\ subtitles[k].start < subtitles[k].end
    /\ segments[1].start = <<"0","0",":","0","0",":","0","1",".","0","0","0">>

\* C7: the indices of the yielded entries are start_index, start_index + 1,
\* ..., start_index + k - 1 in order, whatever was skipped.
C7_ContiguousIndices ==
    Sequenced =>
        \A i \in 1..Len(yielded) : yielded[i].index = start_index + i - 1

C7_Witness ==
    /\ Sequenced /\ start_index = 7 /\ Len(subtitles) = 3
    /\ Len(yielded) = 2
    /\ \E k \in 1..3 :
          /\ k \notin PosOf(yielded)
          /\ subtitles[k].index < subtitles[yielded[1].pos].index
    /\ yielded[2].index = 8

ContainsToken(content, fs) ==
    \E word \in fs : \E i, j \in 0..Len(content) :
        /\ j - i = Len(word)
        /\ \A k \in 1..Len(word) : content[i + k] = word[k]

\* C6: the content filter drops a sequenced entry iff its content holds one
\* of the filter words as a literal, case-sensitive substring; the others
\* yield their Segment, in the order of the Sequencer.
C6_FilterDropsExactlyMatches ==
    srt_pc = "done" =>
        LET kept == SelectSeq(yielded,
                              LAMBDA e : ~ContainsToken(e.content, filters))
        IN  /\ Len(segments) = Len(kept)
            /\ \A i \in 1..Len(kept) : segments[i].src = kept[i]

C6_Witness ==
    /\ srt_pc = "done" /\ filters = {<<"a">>, <<"#">>}
    /\ Len(yielded) = 3 /\ Len(segments) = 1
    /\ segments[1].src.content = <<"A">>
    /\ \E i \in 1..3 : yielded[i].content = <<"a", "b">>
    /\ \E i \in 1..3 : yielded[i].content = <<"b", "#">>

(***************************************************************************)
(* SRT.srt_timestamp_to_timedelta.  TS_REGEX is                            *)
(* three groups of one or more digits, each followed by one delimiter (the *)
(* third delimiter is optional), then a group of zero or more digits.      *)
(* Digits and delimiters are disjoint, so each greedy field is a maximal   *)
(* run of digits.  Delimiters holds the ASCII delimiters of                *)
(* RGX_TIMESTAMP_MAGNITUDE_DELIM; its full-width ones behave alike.        *)
(***************************************************************************)
Delimiters == {",", ".", ":"}
IsDigit(ch) == \E d \in 1..10 : DigitChars[d] = ch
DigitValue(ch) == (CHOOSE d \in 1..10 : DigitChars[d] = ch) - 1

\* the offset just after the run of digits that starts at offset i
RECURSIVE RunEnd(_, _)
RunEnd(text, i) ==
    IF i <= Len(text) /\ IsDigit(text[i]) THEN RunEnd(text, i + 1) ELSE i

\* TS_REGEX.match(text).groups(), or "none"
TS_REGEX_match(text) ==
    LET e1 == RunEnd(text, 1)
        e2 == RunEnd(text, e1 + 1)
        e3 == RunEnd(text, e2 + 1)
        e4 == RunEnd(text, e3 + 1)
        n == Len(text)
        IsDelim(i) == i <= n /\ text[i] \in Delimiters
    IN  IF /\ e1 > 1 /\ IsDelim(e1)
           /\ e2 > e1 + 1 /\ IsDelim(e2)
           /\ e3 > e2 + 1
           /\ \/ e3 = n + 1
              \/ IsDelim(e3) /\ e4 = n + 1
        THEN <<SubSeq(text, 1, e1 - 1), SubSeq(text, e1 + 1, e2 - 1),
               SubSeq(text, e2 + 1, e3 - 1), SubSeq(text, e3 + 1, n)>>
        ELSE "none"

\* int(m) on a text of digits
RECURSIVE int(_)
int(m) ==
    IF Len(m) = 1 THEN DigitValue(m[1])
    ELSE int(SubSeq(m, 1, Len(m) - 1)) * 10 + DigitValue(m[Len(m)])

\* mutant: the fraction is read as a decimal fraction of a second
GroupValue_Scaled(m) ==
    IF m = <<>> THEN 0
    ELSE IF Len(m) = 1 THEN int(m) * 100
    ELSE IF Len(m) = 2 THEN int(m) * 10
    ELSE int(m)

\* int(m) if m else 0, for the fourth group
GroupValue(m) == IF m = <<>> THEN 0 ELSE int(m)

\* timedelta(hours=, minutes=, seconds=, milliseconds=) in milliseconds
timedelta(hours, minutes, seconds, milliseconds) ==
    hours * SECONDS_IN_HOUR * 1000 + minutes * SECONDS_IN_MINUTE * 1000
        + seconds * 1000 + milliseconds

srt_timestamp_to_timedelta(text) ==
    LET match == TS_REGEX_match(text)
    IN  IF match = "none" THEN [ok |-> FALSE]
        ELSE [ok |-> TRUE,
              ms |-> timedelta(int(match[1]), int(match[2]), int(match[3]),
                               GroupValue(match[4]))]

TsDigits == {"0", "1", "5"}
FractionDelimiters == {",", "."}

\* h:m:s, then nothing, or a delimiter and a fraction of 0..MaxFracLen
\* digits.  An empty hours field gives a text TS_REGEX does not match.
InitTimestamp ==
    /\ \E h \in SeqsUpTo(TsDigits, MaxFieldLen),
          m \in SeqsUpTo(TsDigits, MaxFieldLen) \ {<<>>},
          s \in SeqsUpTo(TsDigits, MaxFieldLen) \ {<<>>} :
          \/ /\ ts_fields = [h |-> h, m |-> m, s |-> s, delim |-> FALSE,
                             frac |-> <<>>]
             /\ timestamp = h \o <<":">> \o m \o <<":">> \o s
          \/ \E d \in FractionDelimiters, frac \in SeqsUpTo(TsDigits, MaxFracLen) :
             /\ ts_fields = [h |-> h, m |-> m, s |-> s, delim |-> TRUE,
                             frac |-> frac]
             /\ timestamp = h \o <<":">> \o m \o <<":">> \o s \o <<d>> \o frac
    /\ ts_result = [ok |-> FALSE] /\ ts_pc = "called"
    /\ SrtIdle /\ ParseIdle /\ PipeIdle

TimestampReturns ==
    /\ ts_pc = "called"
    /\ srt_timestamp_to_timedelta(timestamp).ok
    /\ ts_result' = srt_timestamp_to_timedelta(timestamp)
    /\ ts_pc' = "returned"
    /\ UNCHANGED <<timestamp, ts_fields, srtVars, parseVars, pipeVars>>

\* raise RuntimeError(f"Unparseable timestamp: {timestamp}")
TimestampRaises ==
    /\ ts_pc = "called"
    /\ ~srt_timestamp_to_timedelta(timestamp).ok
    /\ ts_result' = [ok |-> FALSE]
    /\ ts_pc' = "raised"
    /\ UNCHANGED <<timestamp, ts_fields, srtVars, parseVars, pipeVars>>

NextTimestamp == TimestampReturns \/ TimestampRaises

SpecTimestamp == InitTimestamp /\ [][NextTimestamp]_vars

(***************************************************************************)
(* Claims about SRT.srt_timestamp_to_timedelta (SpecTimestamp).            *)
(***************************************************************************)
RECURSIVE Pow10(_)
Pow10(k) == IF k = 0 THEN 1 ELSE 10 * Pow10(k - 1)

\* the number a text of decimal digits writes
Decimal(text) ==
    LET RECURSIVE Sum(_)
        Sum(k) == IF k > Len(text) THEN 0
                  ELSE DigitValue(text[k]) * Pow10(Len(text) - k) + Sum(k + 1)
    IN  Sum(1)

\* the fraction padded with zeros on the right to three digits
ScaledFraction(frac) == Decimal(frac) * Pow10(3 - Len(frac))

WholeSeconds(f) ==
    Decimal(f.h) * 3600000 + Decimal(f.m) * 60000 + Decimal(f.s) * 1000

\* C8 as claimed: a fraction of up to three digits is scaled to milliseconds,
\* missing trailing digits counting as 0 ("5" and "50" are 500 ms).
C8_FractionScaled ==
    (ts_pc = "returned" /\ Len(ts_fields.frac) <= 3) =>
        ts_result.ms = WholeSeconds(ts_fields) + ScaledFraction(ts_fields.frac)

\* C8 as amended: the digits of the fraction are read as a whole number of
\* milliseconds, an absent fraction as 0 ("5" and "05" are 5 ms, "50" is 50).
C8_FractionIsMilliseconds ==
    /\ ts_pc = "returned" =>
        /\ ts_result.ok
        /\ ts_result.ms = WholeSeconds(ts_fields) + Decimal(ts_fields.frac)
    /\ (ts_pc # "called" /\ ts_fields.h # <<>>) => ts_pc = "returned"

C8_Witness ==
    /\ ts_pc = "returned"
    /\ ts_fields.frac = <<"5">> /\ ts_fields.s = <<"1">>
    /\ ts_fields.m = <<"0">> /\ ts_fields.h = <<"0">>
    /\ ts_result.ms = 1005

(***************************************************************************)
(* SRT.parse and SRT._check_contiguity.  The buffer is a text over three   *)
(* kinds of character: whitespace, the byte-order marker, and any other    *)
(* character.  SRT_REGEX.finditer(srt) is modelled by what it returns: the *)
(* matches as <<start, end>> offsets (end exclusive), in order, non-empty  *)
(* and not overlapping.  Every match of SRT_REGEX holds two timestamps,    *)
(* so it holds a character that is neither whitespace nor the marker; and  *)
(* the pattern begins with \s* and finditer returns leftmost matches, so   *)
(* no match starts right after an uncovered whitespace character.          *)
(***************************************************************************)
\* "@" stands for the one character U+FEFF of the source
BOM == "@"
BufferChars == {" ", BOM, "x"}

Slice(text, from, to) == SubSeq(text, from + 1, to)

IsFinditerResult(buf, ms) ==
    /\ \A k \in 1..Len(ms) :
          /\ 0 <= ms[k][1] /\ ms[k][1] < ms[k][2] /\ ms[k][2] <= Len(buf)
          /\ \E o \in (ms[k][1] + 1)..ms[k][2] : buf[o] = "x"
          /\ LET before == IF k = 1 THEN 0 ELSE ms[k - 1][2]
             IN  /\ before <= ms[k][1]
                 /\ before < ms[k][1] => buf[ms[k][1]] \notin Whitespace

\* mutant: a leading gap is tolerated wherever it starts
check_contiguity_AnyOffset(buf, expected, actual) ==
    IF expected # actual
    THEN LET unmatched == Slice(buf, expected, actual)
         IN  IF isspace(unmatched) \/ unmatched = <<BOM>>
             THEN [raised |-> FALSE]
             ELSE [raised |-> TRUE, unmatched |-> unmatched]
    ELSE [raised |-> FALSE]

\* SRT._check_contiguity: returns, or raises RuntimeError with the gap
check_contiguity(buf, expected, actual) ==
    IF expected # actual
    THEN LET unmatched == Slice(buf, expected, actual)
         IN  IF expected = 0 /\ (isspace(unmatched) \/ unmatched = <<BOM>>)
             THEN [raised |-> FALSE]
             ELSE [raised |-> TRUE, unmatched |-> unmatched]
    ELSE [raised |-> FALSE]

Offsets == 0..MaxBuf
Spans == {sp \in Offsets \X Offsets : sp[1] < sp[2]}

InitParse ==
    /\ srt \in SeqsUpTo(BufferChars, MaxBuf)
    /\ matches \in SeqsUpTo(Spans, MaxMatches)
    /\ IsFinditerResult(srt, matches)
    /\ expected_start = 0 /\ next_match = 1 /\ parsed = 0
    /\ unmatched_content = <<>> /\ parse_pc = "running"
    /\ SrtIdle /\ TsIdle /\ PipeIdle

\* one turn of the for loop: the check passes and the entry is yielded
ParseYield ==
    /\ parse_pc = "running" /\ next_match <= Len(matches)
    /\ LET actual_start == matches[next_match][1]
       IN  ~check_contiguity(srt, expected_start, actual_start).raised
    /\ parsed' = parsed + 1
    /\ expected_start' = matches[next_match][2]
    /\ next_match' = next_match + 1
    /\ UNCHANGED <<srt, matches, unmatched_content, parse_pc>>
    /\ UNCHANGED <<srtVars, tsVars, pipeVars>>

\* one turn of the for loop: the check raises
ParseGapRaises ==
    /\ parse_pc = "running" /\ next_match <= Len(matches)
    /\ LET r == check_contiguity(srt, expected_start, matches[next_match][1])
       IN  /\ r.raised
           /\ unmatched_content' = r.unmatched
    /\ parse_pc' = "raised"
    /\ UNCHANGED <<srt, matches, expected_start, next_match, parsed>>
    /\ UNCHANGED <<srtVars, tsVars, pipeVars>>

\* after the loop: the check against len(srt) passes
ParseEnds ==
    /\ parse_pc = "running" /\ next_match > Len(matches)
    /\ ~check_contiguity(srt, expected_start, Len(srt)).raised
    /\ parse_pc' = "done"
    /\ UNCHANGED <<srt, matches, expected_start, next_match, parsed,
                   unmatched_content>>
    /\ UNCHANGED <<srtVars, tsVars, pipeVars>>

\* after the loop: the check against len(srt) raises
ParseTailRaises ==
    /\ parse_pc = "running" /\ next_match > Len(matches)
    /\ LET r == check_contiguity(srt, expected_start, Len(srt))
       IN  /\ r.raised
           /\ unmatched_content' = r.unmatched
    /\ parse_pc' = "raised"
    /\ UNCHANGED <<srt, matches, expected_start, next_match, parsed>>
    /\ UNCHANGED <<srtVars, tsVars, pipeVars>>

NextParse == ParseYield \/ ParseGapRaises \/ ParseEnds \/ ParseTailRaises

SpecParse == InitParse /\ [][NextParse]_vars

(***************************************************************************)
(* Claim about SRT.parse (SpecParse).                                      *)
(***************************************************************************)
\* the gaps of the walk: gap k lies before match k, the last before the end
GapFrom(k) == IF k = 1 THEN 0 ELSE matches[k - 1][2]
GapTo(k) == IF k = Len(matches) + 1 THEN Len(srt) ELSE matches[k][1]
GapText(k) == [o \in 1..(GapTo(k) - GapFrom(k)) |-> srt[GapFrom(k) + o]]
IsGap(k) == GapFrom(k) # GapTo(k)
Tolerated(k) ==
    /\ GapFrom(k) = 0
    /\ \/ \A o \in 1..Len(GapText(k)) : GapText(k)[o] = " "
       \/ GapText(k) = <<BOM>>
BadGaps == {k \in 1..(Len(matches) + 1) : IsGap(k) /\ ~Tolerated(k)}
FirstBadGap == CHOOSE k \in BadGaps : \A j \in BadGaps : k <= j

\* C9: parse fails, carrying the uncovered text, at the first place where
\* the end of a match (or offset 0) differs from the start of the next match
\* (or the end of the buffer), except for a gap at offset 0 that is pure
\* whitespace or exactly the byte-order marker; without such a gap it
\* succeeds, every match yielded and every offset covered.
C9_FailsExactlyOnGaps ==
    /\ parse_pc = "raised" =>
          /\ BadGaps # {}
          /\ unmatched_content = GapText(FirstBadGap)
          /\ parsed = FirstBadGap - 1
    /\ parse_pc = "done" =>
          /\ BadGaps = {}
          /\ parsed = Len(matches)
          /\ \A o \in 1..Len(srt) :
                \/ \E k \in 1..Len(matches) :
                      matches[k][1] < o /\ o <= matches[k][2]
                \/ IsGap(1) /\ Tolerated(1) /\ o <= GapTo(1)
    /\ parse_pc = "running" =>
          \A k \in 1..(next_match - 1) : k \notin BadGaps

C9_Witness ==
    /\ parse_pc = "done" /\ Len(matches) = 2 /\ parsed = 2
    /\ matches[1][1] = 1 /\ srt[1] = BOM

(***************************************************************************)
(* condense.  A path is a text; the working directory is TmpDir.           *)
(***************************************************************************)
TmpDir == <<"/", "t">>

\* Path(dir).joinpath(name)
joinpath(dir, name) == dir \o <<"/">> \o name

\* the name of a path: the text after the last "/"
RECURSIVE PathName(_)
PathName(path) ==
    IF \E i \in 1..Len(path) : path[i] = "/"
    THEN PathName(Tail(path)) ELSE path

\* Path.suffix: the name from its last ".", which must be neither the first
\* nor the last character of the name
PathSuffix(path) ==
    LET name == PathName(path)
        dots == {i \in 1..Len(name) : name[i] = "."}
        last == CHOOSE i \in dots : \A j \in dots : j <= i
    IN  IF dots = {} THEN <<>>
        ELSE IF last = 1 \/ last = Len(name) THEN <<>>
        ELSE SubSeq(name, last, Len(name))

\* condense: Path(tmpdir).joinpath(video_path.stem + output_path.suffix)
audio_path_of(stem, suffix) == joinpath(TmpDir, stem \o suffix)

\* extract_segment: audio_path.parent.joinpath(f"{index}{audio_path.suffix}")
dest_path(index, audio) == joinpath(TmpDir, NatToText(index) \o PathSuffix(audio))

filelist_path == joinpath(TmpDir, <<"f", "i", "l", "e", "l", "i", "s", "t",
                                    ".", "t", "x", "t">>)

\* f"file {path}"
filelist_line(path) == <<"f", "i", "l", "e", " ">> \o path

AudioInvocation(stem, suffix) ==
    [stage |-> "audio", index |-> -1, dest |-> audio_path_of(stem, suffix)]
CutInvocation(index, audio) ==
    [stage |-> "cut", index |-> index, dest |-> dest_path(index, audio)]
ConcatInvocation == [stage |-> "concat", index |-> -1, dest |-> <<"o", "u", "t">>]

\* Pool._map_async: chunksize, extra = divmod(len(iterable), len(pool) * 4)
chunksize(n, workers) ==
    IF n = 0 THEN 0
    ELSE (n \div (workers * 4)) + (IF n % (workers * 4) # 0 THEN 1 ELSE 0)

ChunkOf(i) == i \div chunksize(seg_count, pool_size)
FirstInChunk(i) == i % chunksize(seg_count, pool_size) = 0
SameChunk(i, j) == ChunkOf(i) = ChunkOf(j)
Tasks == 0..(seg_count - 1)

\* a chunk a worker is working on: a task of it runs, or one has ended well
\* and the next is about to start
ChunkBusy(c) ==
    \E i \in Tasks :
        /\ ChunkOf(i) = c
        /\ \/ task[i] = "running"
           \/ task[i] = "ok" /\ \E j \in Tasks : SameChunk(i, j) /\ task[j] = "pending"
BusyWorkers == Cardinality({c \in {ChunkOf(i) : i \in Tasks} : ChunkBusy(c)})

\* mutant: the results in the order the tasks ended
starmap_result_CompletionOrder(order, audio) ==
    [k \in 1..Len(order) |-> dest_path(order[k], audio)]

\* pool.starmap returns the results in the order of the iterable
starmap_result(order, audio) ==
    [k \in 1..Len(order) |-> dest_path(k - 1, audio)]

\* mutant: a failed task is ignored
starmap_raises_Never(t) == FALSE

\* pool.starmap raises when a task raised
starmap_raises(t) == \E i \in DOMAIN t : t[i] = "failed"

\* mutant: the directory is removed on success only
TemporaryDirectory_exit_OnSuccess(fs, raising) ==
    IF raising THEN [tmpdir |-> TRUE, files |-> fs]
    ELSE [tmpdir |-> FALSE, files |-> {}]

\* TemporaryDirectory.__exit__: the directory and all it holds are removed
TemporaryDirectory_exit(fs, raising) == [tmpdir |-> FALSE, files |-> {}]

Stems == {<<"v">>, <<"0">>, <<"1">>, <<"0", ".", "5">>,
          <<"f", "i", "l", "e", "l", "i", "s", "t">>}
Suffixes == {<<".", "m">>, <<".", "t", "x", "t">>, <<>>}
PoolSizes == {1, 2}

audio_path == audio_path_of(video_stem, out_suffix)

Init ==
    /\ video_stem \in Stems /\ out_suffix \in Suffixes
    /\ pool_size \in PoolSizes
    /\ seg_count \in 0..MaxSegments /\ seg_raises \in BOOLEAN
    /\ seg_raises => seg_count = 0
    /\ pc = "called" /\ tmpdir = FALSE /\ files = {} /\ invoked = {}
    /\ exited = {} /\ task = <<>> /\ finished = <<>>
    /\ segment_paths = <<>> /\ filelist = <<>> /\ artifact = FALSE
    /\ SrtIdle /\ TsIdle /\ ParseIdle

Exit(raising) ==
    /\ tmpdir' = TemporaryDirectory_exit(files, raising).tmpdir
    /\ files' = TemporaryDirectory_exit(files, raising).files
    /\ pc' = IF raising THEN "raised" ELSE "returned"

\* with TemporaryDirectory() as tmpdir
EnterTemporaryDirectory ==
    /\ pc = "called"
    /\ tmpdir' = TRUE /\ pc' = "audio"
    /\ UNCHANGED <<video_stem, out_suffix, pool_size, seg_count, seg_raises,
                   files, invoked, exited, task, finished, segment_paths,
                   filelist, artifact>>
    /\ UNCHANGED <<srtVars, tsVars, parseVars>>

\* call_ffmpeg("-i", video_path, "-map", "0:a", audio_path) exits 0
ExtractAudio ==
    /\ pc = "audio"
    /\ LET inv == AudioInvocation(video_stem, out_suffix)
       IN  /\ invoked' = invoked \cup {inv}
           /\ exited' = exited \cup {<<inv, 0>>}
           /\ files' = files \cup {inv.dest}
    /\ pc' = "pool"
    /\ UNCHANGED <<video_stem, out_suffix, pool_size, seg_count, seg_raises,
                   tmpdir, task, finished, segment_paths, filelist, artifact>>
    /\ UNCHANGED <<srtVars, tsVars, parseVars>>

\* the same call exits non-zero: check_call raises, the with block is left
ExtractAudioFails ==
    /\ pc = "audio"
    /\ LET inv == AudioInvocation(video_stem, out_suffix)
       IN  /\ invoked' = invoked \cup {inv}
           /\ exited' = exited \cup {<<inv, 1>>}
    /\ Exit(TRUE)
    /\ UNCHANGED <<video_stem, out_suffix, pool_size, seg_count, seg_raises,
                   task, finished, segment_paths, filelist, artifact>>
    /\ UNCHANGED <<srtVars, tsVars, parseVars>>

\* pool.starmap turns the iterable into a list and queues the tasks
QueueTasks ==
    /\ pc = "pool" /\ ~seg_raises
    /\ task' = [i \in Tasks |-> "pending"]
    /\ pc' = "cutting"
    /\ UNCHANGED <<video_stem, out_suffix, pool_size, seg_count, seg_raises,
                   tmpdir, files, invoked, exited, finished, segment_paths,
                   filelist, artifact>>
    /\ UNCHANGED <<srtVars, tsVars, parseVars>>

\* iterating the Segments raises (parse_srt runs here, being a generator)
SegmentsRaise ==
    /\ pc = "pool" /\ seg_raises
    /\ Exit(TRUE)
    /\ UNCHANGED <<video_stem, out_suffix, pool_size, seg_count, seg_raises,
                   invoked, exited, task, finished, segment_paths, filelist,
                   artifact>>
    /\ UNCHANGED <<srtVars, tsVars, parseVars>>

\* a worker calls extract_segment(segment, i, audio_path), which invokes the
\* cut: the first task of the next queued chunk when a worker is free, or
\* the next task of the chunk the worker is in
StartCut(i) ==
    /\ pc = "cutting" /\ task[i] = "pending"
    /\ IF FirstInChunk(i)
       THEN /\ BusyWorkers < pool_size
            /\ \A j \in Tasks : (j < i /\ FirstInChunk(j)) => task[j] # "pending"
       ELSE task[i - 1] = "ok"
    /\ task' = [task EXCEPT ![i] = "running"]
    /\ invoked' = invoked \cup {CutInvocation(i, audio_path)}
    /\ UNCHANGED <<video_stem, out_suffix, pool_size, seg_count, seg_raises,
                   pc, tmpdir, files, exited, finished, segment_paths,
                   filelist, artifact>>
    /\ UNCHANGED <<srtVars, tsVars, parseVars>>

\* the cut of Segment i exits 0 and extract_segment returns dest_path
CutExits(i) ==
    /\ pc = "cutting" /\ task[i] = "running"
    /\ task' = [task EXCEPT ![i] = "ok"]
    /\ exited' = exited \cup {<<CutInvocation(i, audio_path), 0>>}
    /\ files' = files \cup {dest_path(i, audio_path)}
    /\ finished' = Append(finished, i)
    /\ UNCHANGED <<video_stem, out_suffix, pool_size, seg_count, seg_raises,
                   pc, tmpdir, invoked, segment_paths, filelist, artifact>>
    /\ UNCHANGED <<srtVars, tsVars, parseVars>>

\* the cut of Segment i exits non-zero: the task raises, and the worker
\* gives up the rest of its chunk.  The clip may have been written in part.
CutFails(i) ==
    /\ pc = "cutting" /\ task[i] = "running"
    /\ task' = [j \in Tasks |->
                   IF j = i THEN "failed"
                   ELSE IF SameChunk(i, j) /\ task[j] = "pending"
                   THEN "abandoned" ELSE task[j]]
    /\ exited' = exited \cup {<<CutInvocation(i, audio_path), 1>>}
    /\ \E left \in BOOLEAN :
          files' = IF left THEN files \cup {dest_path(i, audio_path)} ELSE files
    /\ finished' = Append(finished, i)
    /\ UNCHANGED <<video_stem, out_suffix, pool_size, seg_count, seg_raises,
                   pc, tmpdir, invoked, segment_paths, filelist, artifact>>
    /\ UNCHANGED <<srtVars, tsVars, parseVars>>

AllChunksDone == \A i \in Tasks : task[i] \in {"ok", "failed", "abandoned"}

\* pool.starmap returns once every chunk is done
StarmapReturns ==
    /\ pc = "cutting" /\ AllChunksDone /\ ~starmap_raises(task)
    /\ segment_paths' = starmap_result(finished, audio_path)
    /\ pc' = "joined"
    /\ UNCHANGED <<video_stem, out_suffix, pool_size, seg_count, seg_raises,
                   tmpdir, files, invoked, exited, task, finished, filelist,
                   artifact>>
    /\ UNCHANGED <<srtVars, tsVars, parseVars>>

\* pool.starmap raises the error of a task once every chunk is done
StarmapRaises ==
    /\ pc = "cutting" /\ AllChunksDone /\ starmap_raises(task)
    /\ Exit(TRUE)
    /\ UNCHANGED <<video_stem, out_suffix, pool_size, seg_count, seg_raises,
                   invoked, exited, task, finished, segment_paths, filelist,
                   artifact>>
    /\ UNCHANGED <<srtVars, tsVars, parseVars>>

\* filelist.txt is written and the concat invoked; it exits 0 and the with
\* block is left
Concat ==
    /\ pc = "joined"
    /\ filelist' = [k \in 1..Len(segment_paths) |->
                        filelist_line(segment_paths[k])]
    /\ invoked' = invoked \cup {ConcatInvocation}
    /\ exited' = exited \cup {<<ConcatInvocation, 0>>}
    /\ artifact' = TRUE
    /\ Exit(FALSE)
    /\ UNCHANGED <<video_stem, out_suffix, pool_size, seg_count, seg_raises,
                   task, finished, segment_paths>>
    /\ UNCHANGED <<srtVars, tsVars, parseVars>>

\* the same, the concat exiting non-zero
ConcatFails ==
    /\ pc = "joined"
    /\ filelist' = [k \in 1..Len(segment_paths) |->
                        filelist_line(segment_paths[k])]
    /\ invoked' = invoked \cup {ConcatInvocation}
    /\ exited' = exited \cup {<<ConcatInvocation, 1>>}
    /\ Exit(TRUE)
    /\ UNCHANGED <<video_stem, out_suffix, pool_size, seg_count, seg_raises,
                   task, finished, segment_paths, artifact>>
    /\ UNCHANGED <<srtVars, tsVars, parseVars>>

Next ==
    \/ EnterTemporaryDirectory
    \/ ExtractAudio
    \/ ExtractAudioFails
    \/ QueueTasks
    \/ SegmentsRaise
    \/ \E i \in Tasks : StartCut(i)
    \/ \E i \in Tasks : CutExits(i)
    \/ \E i \in Tasks : CutFails(i)
    \/ StarmapReturns
    \/ StarmapRaises
    \/ Concat
    \/ ConcatFails

Spec == Init /\ [][Next]_vars

(***************************************************************************)
(* Claims about condense (Spec).                                           *)
(***************************************************************************)
Cuts == {inv \in invoked : inv.stage = "cut"}
Ended == pc \in {"returned", "raised"}
ConcatInvoked == \E inv \in invoked : inv.stage = "concat"
AudioExited(code) ==
    \E e \in exited : e[1].stage = "audio" /\ e[2] = code
CutExited(i, code) ==
    \E e \in exited : e[1].stage = "cut" /\ e[1].index = i /\ e[2] = code
SomeCutFailed == \E i \in Tasks : CutExited(i, 1)

\* C3: the manifest handed to the concat lists one clip per Segment, line
\* i for Segment i, whatever the order in which the cuts ended.
C3_ManifestInSegmentOrder ==
    ConcatInvoked =>
        /\ Len(filelist) = seg_count
        /\ \A i \in Tasks :
              \E inv \in Cuts :
                  /\ inv.index = i
                  /\ filelist[i + 1] = <<"f", "i", "l", "e", " ">> \o inv.dest

C3_Witness ==
    /\ pc = "returned" /\ seg_count = 3 /\ ConcatInvoked
    /\ finished = <<1, 2, 0>>

\* C4: no cut is invoked before the audio extraction has exited 0; the
\* concat is invoked only after every cut has exited 0; once the audio
\* extraction or a cut has exited non-zero, no later stage is invoked, the
\* concat is never invoked and no artifact is produced.
C4_StagesInOrder ==
    /\ Cuts # {} => AudioExited(0)
    /\ ConcatInvoked => AudioExited(0) /\ \A i \in Tasks : CutExited(i, 0)
    /\ AudioExited(1) => Cuts = {} /\ ~ConcatInvoked /\ ~artifact
    /\ SomeCutFailed => ~ConcatInvoked /\ ~artifact
    /\ artifact => ConcatInvoked

C4_Witness ==
    /\ pc = "raised" /\ CutExited(1, 1) /\ CutExited(0, 0) /\ CutExited(2, 0)
    /\ ~ConcatInvoked /\ ~artifact

\* C5: once condense has returned or raised, on every path, the working
\* directory does not exist and holds no file; when the audio extraction
\* failed no cut was ever invoked, so no clip was ever written.
C5_WorkingDirectoryRemoved ==
    /\ Ended => ~tmpdir /\ files = {}
    /\ AudioExited(1) => Ended /\ Cuts = {}
    /\ ~tmpdir => files = {}

C5_Witness ==
    /\ pc = "raised" /\ CutExited(0, 0) /\ CutExited(1, 1)
    /\ ~tmpdir /\ files = {}

\* C10: the destinations of the cuts are pairwise distinct, and each
\* differs from the working audio file and from the manifest.
C10_DestinationsDistinct ==
    /\ \A a, b \in Cuts : a.index # b.index => a.dest # b.dest
    /\ \A a \in Cuts : a.dest # audio_path /\ a.dest # filelist_path

====
